---- MODULE Spec2Model ----
(***************************************************************************)
(* Block validation, Merkle commitment and block codec of vulkan-core     *)
(* (src/src/core/block.c, src/src/core/merkle.c).                          *)
(*                                                                         *)
(* Representation.                                                         *)
(*  - A hash is a term: K(n) is the 32-byte string whose bytes all equal n *)
(*    (K(0) is the zero hash), sha256d(buf) is the digest of the byte      *)
(*    buffer buf.  Digests are collision free: two digests are equal iff   *)
(*    their preimages are.                                                 *)
(*  - A byte buffer is a sequence of cells.  <<"b", n>> is one byte n;     *)
(*    <<"h", t>> is the HASH_SIZE bytes of the hash t; <<"sig", s>>,       *)
(*    <<"pk", k>> and <<"addr", a>> are the bytes of a signature, a public *)
(*    key and an address.  BufLen gives the length in bytes.               *)
(*  - A uint32_t is an integer; values from 2^31 up are held in two's      *)
(*    complement (0xFFFFFFFF is -1), which has the same little-endian      *)
(*    bytes.                                                               *)
(***************************************************************************)
EXTENDS Integers, Sequences, FiniteSets, TLC

VARIABLES
  block,      \* the block_t under construction / validation
  now,        \* get_current_time()
  ret,        \* last completed call on the block: [op, val, now]
  tampered,   \* [on, g]: a signature bit was flipped in a block valid_block had just accepted
  tree,       \* Merkle spec: working state of construct_merkle_tree_from_leaves
  codec,      \* codec spec: buffers, decoded block, return codes
  genesis,    \* the block get_genesis_block() returns
  calls,      \* construction spec: the add_transaction_to_block calls that completed
  other_block,\* copy spec: the block copy_block writes
  validated,  \* life-cycle spec: valid_block has returned 1 for block
  vb          \* path spec: position of the running valid_block call and what it did so far

vars == <<block, now, ret, tampered, tree, codec, genesis, calls, other_block, validated, vb>>

-----------------------------------------------------------------------------
(* Program constants                                                       *)

HASH_SIZE == 32
BLOCK_HEADER_SIZE == 92
BLOCK_VERSION == 1
MAX_FUTURE_BLOCK_TIME == 7200
TXIN_HEADER_SIZE == 32 + 4
SIGNATURE_SIZE == 64
PUBLICKEY_SIZE == 32
ADDRESS_SIZE == 1 + HASH_SIZE
COINBASE_TXOUT_INDEX == -1          \* 0xFFFFFFFF as a uint32_t

(* Bounds of the model                                                     *)
MaxTx == 3                          \* transactions added to a block
MaxLeaves == 5                      \* leaves given to the Merkle engine
MaxCodecTx == 2                     \* transactions of a block given to the codec
MAX_BLOCK_SIZE == 820               \* scaled: a block of three transactions, two of them with two outputs, exceeds it
MaxTarget == 2                      \* scaled maximum proof-of-work target
DigestRange == 4                    \* scaled range of a digest read as an integer

-----------------------------------------------------------------------------
(* Hashes and byte buffers                                                 *)

K(n) == <<"k", n>>
zero_tx_hash == K(0)
sha256d(buf) == <<"sha256d", buf>>

Byte(n) == <<"b", n>>
HashBytes(h) == << <<"h", h>> >>

CellWidth(c) ==
  CASE c[1] = "b" -> 1
    [] c[1] = "h" -> HASH_SIZE
    [] c[1] = "sig" -> SIGNATURE_SIZE
    [] c[1] = "pk" -> PUBLICKEY_SIZE
    [] c[1] = "addr" -> ADDRESS_SIZE

RECURSIVE BufLen(_)
BufLen(buf) == IF buf = <<>> THEN 0 ELSE CellWidth(Head(buf)) + BufLen(Tail(buf))

\* little-endian bytes of an unsigned integer of 4 / 8 bytes
U32LE(n) == << Byte(n % 256), Byte((n \div 256) % 256),
               Byte((n \div 65536) % 256), Byte((n \div 16777216) % 256) >>
U64LE(n) == U32LE(n) \o << Byte(0), Byte(0), Byte(0), Byte(0) >>
U8(n) == << Byte(n % 256) >>

compare_hash(a, b) == IF a = b THEN 1 ELSE 0

-----------------------------------------------------------------------------
(* Transaction model (transaction.c is not part of the sources; these      *)
(* definitions follow sections 3, 4.2 and 4.3 of the specification).       *)

\* A signature is <<signing key, signed message, flipped-bit mask>>: the
\* signature ed25519 produces has mask 0, and flipping bit k of its bytes
\* toggles bit k of the mask.
Sign(pk, msg) == <<pk, msg, 0>>
FlipBit(sig, k) ==
  <<sig[1], sig[2],
    IF (sig[3] \div (2^k)) % 2 = 1 THEN sig[3] - 2^k ELSE sig[3] + 2^k>>
ed25519_verify(sig, msg, pk) == sig[1] = pk /\ sig[2] = msg /\ sig[3] = 0

get_txin_header(txin) == HashBytes(txin.transaction) \o U32LE(txin.txout_index)
get_txout_header(txout) == U64LE(txout.amount) \o << <<"addr", txout.address>> >>

\* the concatenation of a sequence of buffers
RECURSIVE Flatten(_)
Flatten(bufs) == IF bufs = <<>> THEN <<>> ELSE Head(bufs) \o Flatten(Tail(bufs))

get_tx_sign_header(tx) ==
  Flatten([i \in 1..Len(tx.txins) |-> get_txin_header(tx.txins[i])])
    \o Flatten([o \in 1..Len(tx.txouts) |-> get_txout_header(tx.txouts[o])])

compute_tx_id(tx) == sha256d(get_tx_sign_header(tx))

is_coinbase_txin(txin) ==
  txin.transaction = zero_tx_hash /\ txin.txout_index = COINBASE_TXOUT_INDEX

is_coinbase_tx(tx) ==
  IF tx.txin_count = 1 /\ is_coinbase_txin(tx.txins[1]) THEN 1 ELSE 0

Outpoint(txin) == <<txin.transaction, txin.txout_index>>

\* every input's signature verifies over the sign preimage
TxSignaturesVerify(tx) ==
  \A i \in 1..tx.txin_count :
    ed25519_verify(tx.txins[i].signature, get_tx_sign_header(tx),
                   tx.txins[i].public_key)

\* Returns 0 when the signatures of tx are in order and 1 when one is not
\* (the error-code convention of the callee results block.c tests with
\* `if (f(...)) return 1;`).  A coinbase has nothing to verify.
validate_tx_signatures(tx) ==
  IF is_coinbase_tx(tx) = 1 \/ TxSignaturesVerify(tx) THEN 0 ELSE 1

RECURSIVE SumAmounts(_)
SumAmounts(txouts) ==
  IF txouts = <<>> THEN 0 ELSE Head(txouts).amount + SumAmounts(Tail(txouts))

valid_transaction(tx) ==
  IF /\ tx.txin_count >= 1
     /\ tx.txout_count >= 1
     /\ compute_tx_id(tx) = tx.id
     /\ \A o \in 1..tx.txout_count : tx.txouts[o].amount > 0
     /\ SumAmounts(tx.txouts) >= 0     \* amounts in the model never reach 2^64
     /\ (is_coinbase_tx(tx) = 0 => TxSignaturesVerify(tx))
     /\ (is_coinbase_tx(tx) = 0 =>
           \A i, j \in 1..tx.txin_count :
             i # j => Outpoint(tx.txins[i]) # Outpoint(tx.txins[j]))
  THEN 1 ELSE 0

\* Codec layout of a transaction (section 4.2): length-prefixed fields carry
\* a 4-byte little-endian length.
serialize_txin(txin) ==
  U32LE(HASH_SIZE) \o HashBytes(txin.transaction) \o U32LE(txin.txout_index)
    \o U32LE(SIGNATURE_SIZE) \o << <<"sig", txin.signature>> >>
    \o U32LE(PUBLICKEY_SIZE) \o << <<"pk", txin.public_key>> >>
serialize_txout(txout) ==
  U64LE(txout.amount) \o U32LE(ADDRESS_SIZE) \o << <<"addr", txout.address>> >>
serialize_transaction(tx) ==
  U32LE(HASH_SIZE) \o HashBytes(tx.id) \o U8(tx.txin_count) \o U8(tx.txout_count)
    \o Flatten([i \in 1..Len(tx.txins) |-> serialize_txin(tx.txins[i])])
    \o Flatten([o \in 1..Len(tx.txouts) |-> serialize_txout(tx.txouts[o])])

get_tx_header_size(tx) == BufLen(serialize_transaction(tx))

-----------------------------------------------------------------------------
(* Merkle engine (merkle.c).  The heap is the sequence of allocated         *)
(* merkle_node_t; a node pointer is its index in the heap, NULL_NODE is the *)
(* null pointer.  The engine state mt is [heap, nodes, num_of_nodes] where  *)
(* nodes is the pointer array of construct_merkle_tree_from_leaves.         *)

NULL_NODE == 0

construct_merkle_leaves_from_hashes(hashes) ==
  [ heap  |-> [i \in 1..Len(hashes) |->
                 [hash |-> hashes[i], left |-> NULL_NODE, right |-> NULL_NODE]],
    nodes |-> [i \in 1..Len(hashes) |-> i],
    num_of_nodes |-> Len(hashes) ]

\* the node construct_merkle_node allocates for the children left and right
construct_merkle_node(heap, left, right) ==
  [ hash  |-> sha256d(HashBytes(heap[left].hash) \o HashBytes(heap[right].hash)),
    left  |-> left,
    right |-> right ]

\* the first loop of collapse_merkle_nodes, from i on (i is 0-based as in
\* the code); st is [heap, temp_nodes]
RECURSIVE CollapsePairs(_, _, _, _)
CollapsePairs(st, nodes, num, i) ==
  IF i < num - 1
  THEN LET n == construct_merkle_node(st.heap, nodes[i + 1], nodes[i + 2])
           heap2 == Append(st.heap, n)
       IN CollapsePairs([heap |-> heap2,
                         temp_nodes |-> Append(st.temp_nodes, Len(heap2))],
                        nodes, num, i + 2)
  ELSE st

\* mutant: the odd last node is paired with its left neighbour
CollapseOddTail_PairWithNeighbour(st, nodes, num) ==
  LET n == construct_merkle_node(st.heap, nodes[num - 1], nodes[num])
      heap2 == Append(st.heap, n)
  IN [heap |-> heap2, temp_nodes |-> Append(st.temp_nodes, Len(heap2))]

CollapseOddTail(st, nodes, num) ==
  LET n == construct_merkle_node(st.heap, nodes[num], nodes[num])
      heap2 == Append(st.heap, n)
  IN [heap |-> heap2, temp_nodes |-> Append(st.temp_nodes, Len(heap2))]

collapse_merkle_nodes(mt) ==
  LET paired == CollapsePairs([heap |-> mt.heap, temp_nodes |-> <<>>],
                              mt.nodes, mt.num_of_nodes, 0)
      st == IF mt.num_of_nodes % 2 # 0
            THEN CollapseOddTail(paired, mt.nodes, mt.num_of_nodes)
            ELSE paired
      current_node_idx == Len(st.temp_nodes)
  IN [ heap  |-> st.heap,
       nodes |-> [i \in 1..Len(mt.nodes) |->
                    IF i <= current_node_idx THEN st.temp_nodes[i] ELSE mt.nodes[i]],
       num_of_nodes |-> current_node_idx ]

RECURSIVE CollapseAll(_)
CollapseAll(mt) ==
  IF mt.num_of_nodes > 1 THEN CollapseAll(collapse_merkle_nodes(mt)) ELSE mt

\* NULL_TREE when there are no hashes, else the tree: its heap and its root
NULL_TREE == [heap |-> <<>>, root |-> NULL_NODE]

construct_merkle_tree_from_leaves(hashes) ==
  IF Len(hashes) < 1
  THEN NULL_TREE
  ELSE LET mt == CollapseAll(construct_merkle_leaves_from_hashes(hashes))
       IN [heap |-> mt.heap, root |-> mt.nodes[1]]

\* free(node): one more free of the node at this heap index
FreeNode(st, node) == [st EXCEPT !.frees[node] = @ + 1]

\* mutant: a node whose children are the same node is not told apart, both
\* child pointers are followed
RECURSIVE free_merkle_node_NoSharedChildTest(_, _)
free_merkle_node_NoSharedChildTest(st, node) ==
  LET left == st.heap[node].left
      right == st.heap[node].right
      after_left == IF left # NULL_NODE
                    THEN [free_merkle_node_NoSharedChildTest(st, left)
                            EXCEPT !.heap[node].left = NULL_NODE]
                    ELSE st
      after_right == IF right # NULL_NODE
                     THEN [free_merkle_node_NoSharedChildTest(after_left, right)
                             EXCEPT !.heap[node].right = NULL_NODE]
                     ELSE after_left
  IN FreeNode(after_right, node)

\* free_merkle_node: st is [heap, frees], frees[i] the number of times the
\* node at heap index i was handed to free
RECURSIVE free_merkle_node(_, _)
free_merkle_node(st, node) ==
  LET left == st.heap[node].left
      right == st.heap[node].right
  IN IF left # NULL_NODE /\ left = right
     THEN FreeNode(free_merkle_node(st, left), node)
     ELSE LET after_left == IF left # NULL_NODE
                            THEN [free_merkle_node(st, left)
                                    EXCEPT !.heap[node].left = NULL_NODE]
                            ELSE st
              after_right == IF right # NULL_NODE
                             THEN [free_merkle_node(after_left, right)
                                     EXCEPT !.heap[node].right = NULL_NODE]
                             ELSE after_left
          IN FreeNode(after_right, node)

\* free_merkle_tree: the nodes from the root down, then the tree itself
free_merkle_tree(heap, root) ==
  LET st == free_merkle_node([heap |-> heap, frees |-> [i \in 1..Len(heap) |-> 0]], root)
  IN [heap |-> st.heap, frees |-> st.frees, tree_freed |-> TRUE]

-----------------------------------------------------------------------------
(* Blocks (block.c).  A block_t is a record; transactions is the array of   *)
(* transaction pointers (<<>> when the pointer is NULL), each slot being    *)
(* Ptr(tx), NULL_TX, or UNINIT_TX for memory malloc returned and nobody     *)
(* wrote.                                                                   *)

Ptr(tx) == <<"ptr", tx>>
NULL_TX == <<"null">>
UNINIT_TX == <<"uninit">>
Deref(slot) == slot[2]

make_block ==
  [ version |-> BLOCK_VERSION,
    previous_hash |-> K(0),
    hash |-> K(0),
    timestamp |-> 0,
    nonce |-> 0,
    bits |-> 0,
    cumulative_emission |-> 0,
    merkle_root |-> K(0),
    transaction_count |-> 0,
    transactions |-> <<>> ]

\* mutant: the comparison is strict
valid_block_timestamp_Strict(b, t) ==
  IF b.timestamp < t + MAX_FUTURE_BLOCK_TIME THEN 1 ELSE 0

valid_block_timestamp(b, t) ==
  IF b.timestamp <= t + MAX_FUTURE_BLOCK_TIME THEN 1 ELSE 0

serialize_block_header(b) ==
  U32LE(b.version) \o U32LE(b.timestamp) \o U32LE(b.nonce) \o U32LE(b.bits)
    \o U64LE(b.cumulative_emission)
    \o HashBytes(b.previous_hash) \o HashBytes(b.merkle_root)

\* n bytes of a fresh buffer that nothing has written; g is what they hold
UninitBytes(n, g) == [i \in 1..n |-> Byte(g)]

\* The BLOCK_HEADER_SIZE bytes compute_block_hash copies out of the buffer
\* it created with buffer_init_size(0, BLOCK_HEADER_SIZE): what
\* serialize_block_header wrote, then the bytes of the buffer it did not.
HeaderPreimage(b, g) ==
  LET written == serialize_block_header(b)
  IN written \o UninitBytes(BLOCK_HEADER_SIZE - BufLen(written), g)

compute_block_hash(b, g) == sha256d(HeaderPreimage(b, g))

\* Proof of work (pow.c is not part of the sources; section 4.5).  A digest
\* read as an integer is scaled to 0..DigestRange-1.
RECURSIVE ByteSum(_)
ByteSum(buf) ==
  IF buf = <<>> THEN 0
  ELSE (IF Head(buf)[1] = "b" THEN Head(buf)[2] ELSE 0) + ByteSum(Tail(buf))

HashAsInteger(h) ==
  IF h[1] = "k" THEN h[2] % DigestRange ELSE ByteSum(h[2]) % DigestRange

RECURSIVE Pow256(_)
Pow256(e) == IF e <= 0 THEN 1 ELSE 256 * Pow256(e - 1)

check_proof_of_work(hash, bits) ==
  LET exponent == bits \div 16777216
      mantissa == bits % 8388608
      negative == (bits \div 8388608) % 2 = 1
      target == mantissa * Pow256(exponent - 3)
      clamped == IF target > MaxTarget THEN MaxTarget ELSE target
  IN IF ~negative /\ HashAsInteger(hash) <= clamped THEN 1 ELSE 0

valid_block_hash(b, g) ==
  LET expected_block_hash == compute_block_hash(b, g)
  IN IF compare_hash(expected_block_hash, b.hash) = 1
        /\ check_proof_of_work(b.hash, b.bits) = 1
     THEN 1 ELSE 0

\* compute_merkle_root: [rc, merkle_root]; the tx ids are recomputed, the
\* stored ids are not read
compute_merkle_root(b) ==
  LET hashes == [i \in 1..b.transaction_count |->
                   compute_tx_id(Deref(b.transactions[i]))]
      t == construct_merkle_tree_from_leaves(hashes)
  IN [rc |-> 0, merkle_root |-> t.heap[t.root].hash]

valid_merkle_root(b) ==
  LET r == compute_merkle_root(b)
  IN IF r.rc # 0 THEN 0 ELSE compare_hash(r.merkle_root, b.merkle_root)

RECURSIVE SumTxHeaderSizes(_, _)
SumTxHeaderSizes(b, i) ==
  IF i > b.transaction_count THEN 0
  ELSE get_tx_header_size(Deref(b.transactions[i])) + SumTxHeaderSizes(b, i + 1)

get_block_header_size(b) == BLOCK_HEADER_SIZE + SumTxHeaderSizes(b, 1)

\* mutant: the txout index is compared with != instead of ==
TxinsShareOutpoint_IndexNegated(first_tx, second_tx) ==
  \E first_txin_index \in 1..first_tx.txin_count :
    \E second_txin_index \in 1..second_tx.txin_count :
      LET txin_first == first_tx.txins[first_txin_index]
          txin_second == second_tx.txins[second_txin_index]
      IN /\ compare_hash(txin_first.transaction, txin_second.transaction) = 1
         /\ txin_first.txout_index # txin_second.txout_index

\* the two innermost loops of valid_block: some input of first_tx and some
\* input of second_tx reference the same txout id + index
TxinsShareOutpoint(first_tx, second_tx) ==
  \E first_txin_index \in 1..first_tx.txin_count :
    \E second_txin_index \in 1..second_tx.txin_count :
      LET txin_first == first_tx.txins[first_txin_index]
          txin_second == second_tx.txins[second_txin_index]
      IN /\ compare_hash(txin_first.transaction, txin_second.transaction) = 1
         /\ txin_first.txout_index = txin_second.txout_index

\* the loop over second_tx_index, from second_tx_index on (0-based as in
\* the code); 0 when the code returns 0, 1 when the loop runs to its end
RECURSIVE SecondTxLoop(_, _, _)
SecondTxLoop(b, first_tx_index, second_tx_index) ==
  IF second_tx_index >= b.transaction_count THEN 1
  ELSE LET first_slot == b.transactions[first_tx_index + 1]
           second_slot == b.transactions[second_tx_index + 1]
       IN IF second_slot = NULL_TX THEN 0
          ELSE IF first_tx_index = second_tx_index
               THEN SecondTxLoop(b, first_tx_index, second_tx_index + 1)
          ELSE IF compare_hash(Deref(first_slot).id, Deref(second_slot).id) = 1 THEN 0
          ELSE IF TxinsShareOutpoint(Deref(first_slot), Deref(second_slot)) THEN 0
          ELSE SecondTxLoop(b, first_tx_index, second_tx_index + 1)

\* mutant: valid_transaction is not called
FirstTxChecks_NoValidTransaction(first_slot, first_tx_index) ==
  IF first_slot = NULL_TX THEN 0
  ELSE IF first_tx_index # 0 /\ is_coinbase_tx(Deref(first_slot)) = 1 THEN 0
  ELSE 1

\* what the loop body does with one first_tx before the loop over second_tx
FirstTxChecks(first_slot, first_tx_index) ==
  IF first_slot = NULL_TX THEN 0
  ELSE IF valid_transaction(Deref(first_slot)) = 0 THEN 0
  ELSE IF first_tx_index # 0 /\ is_coinbase_tx(Deref(first_slot)) = 1 THEN 0
  ELSE 1

RECURSIVE FirstTxLoop(_, _)
FirstTxLoop(b, first_tx_index) ==
  IF first_tx_index >= b.transaction_count THEN 1
  ELSE IF FirstTxChecks(b.transactions[first_tx_index + 1], first_tx_index) = 0 THEN 0
  ELSE IF SecondTxLoop(b, first_tx_index, 0) = 0 THEN 0
  ELSE FirstTxLoop(b, first_tx_index + 1)

\* mutant: the block size is not compared with MAX_BLOCK_SIZE
valid_block_NoSizeTest(b, t, g) ==
  IF valid_block_timestamp(b, t) = 0 THEN 0
  ELSE IF b.transaction_count < 1 THEN 0
  ELSE IF b.transactions[1] = NULL_TX THEN 0
  ELSE IF is_coinbase_tx(Deref(b.transactions[1])) = 0 THEN 0
  ELSE IF FirstTxLoop(b, 0) = 0 THEN 0
  ELSE IF valid_block_hash(b, g) = 0 THEN 0
  ELSE IF valid_merkle_root(b) = 0 THEN 0
  ELSE 1

\* mutant: the first transaction is not required to be generational
valid_block_NoFirstCoinbaseTest(b, t, g) ==
  IF valid_block_timestamp(b, t) = 0 THEN 0
  ELSE IF b.transaction_count < 1 THEN 0
  ELSE IF b.transactions[1] = NULL_TX THEN 0
  ELSE IF FirstTxLoop(b, 0) = 0 THEN 0
  ELSE IF get_block_header_size(b) > MAX_BLOCK_SIZE THEN 0
  ELSE IF valid_block_hash(b, g) = 0 THEN 0
  ELSE IF valid_merkle_root(b) = 0 THEN 0
  ELSE 1

\* valid_block at time t; g is what the unwritten bytes of the header
\* buffer hold during this call
valid_block(b, t, g) ==
  IF valid_block_timestamp(b, t) = 0 THEN 0
  ELSE IF b.transaction_count < 1 THEN 0
  ELSE IF b.transactions[1] = NULL_TX THEN 0
  ELSE IF is_coinbase_tx(Deref(b.transactions[1])) = 0 THEN 0
  ELSE IF FirstTxLoop(b, 0) = 0 THEN 0
  ELSE IF get_block_header_size(b) > MAX_BLOCK_SIZE THEN 0
  ELSE IF valid_block_hash(b, g) = 0 THEN 0
  ELSE IF valid_merkle_root(b) = 0 THEN 0
  ELSE 1

RECURSIVE validate_block_signatures_from(_, _)
validate_block_signatures_from(b, tx_index) ==
  IF tx_index >= b.transaction_count THEN 0
  ELSE IF validate_tx_signatures(Deref(b.transactions[tx_index + 1])) # 0 THEN 1
  ELSE validate_block_signatures_from(b, tx_index + 1)

\* mutant: the result is returned as a truth value, 1 when nothing failed
validate_block_signatures_AsBoolean(b) ==
  IF validate_block_signatures_from(b, 0) = 0 THEN 1 ELSE 0

validate_block_signatures(b) == validate_block_signatures_from(b, 0)

\* mutant: the assertion compares tx_index with the incremented count
add_transaction_to_block_AssertAfterCount(b, tx, tx_index) ==
  LET count == b.transaction_count + 1
  IN IF tx_index = count
     THEN [ok |-> TRUE,
           block |-> [b EXCEPT !.transaction_count = count,
                               !.transactions = Append(@, Ptr(tx))]]
     ELSE [ok |-> FALSE, block |-> [b EXCEPT !.transaction_count = count]]

\* add_transaction_to_block: the block after the call and whether the
\* assertion on tx_index held
add_transaction_to_block(b, tx, tx_index) ==
  LET count == b.transaction_count + 1
  IN IF tx_index = count - 1
     THEN [ok |-> TRUE,
           block |-> [b EXCEPT !.transaction_count = count,
                               !.transactions = Append(@, Ptr(tx))]]
     ELSE [ok |-> FALSE, block |-> [b EXCEPT !.transaction_count = count]]

\* the loop of add_transactions_to_block from i on (0-based): the block
\* after the call and whether every assertion held
RECURSIVE AddTransactionsLoop(_, _, _)
AddTransactionsLoop(b, transactions, i) ==
  IF i >= Len(transactions) THEN [ok |-> TRUE, block |-> b]
  ELSE LET r == add_transaction_to_block(b, transactions[i + 1], i + 1)
       IN IF ~r.ok THEN r
          ELSE AddTransactionsLoop(r.block, transactions, i + 1)

add_transactions_to_block(b, transactions) == AddTransactionsLoop(b, transactions, 0)

-----------------------------------------------------------------------------
(* Inputs of the block validator model                                     *)

Now0 == 1600000000
Garbage == {0, 170}                 \* contents of unwritten buffer bytes
PowBits == 50331649                 \* exponent 3, mantissa 1
Timestamps == {Now0 + MAX_FUTURE_BLOCK_TIME, Now0 + MAX_FUTURE_BLOCK_TIME + 1}
Nonces == {0, 2}

MkTxIn(h, idx, pk) ==
  [transaction |-> h, txout_index |-> idx, signature |-> Sign(0, <<>>),
   public_key |-> pk]
MkTxOut(amount, address) == [amount |-> amount, address |-> address]

\* a transaction with its id computed and every input signed by its key
MkTx(ins, outs) ==
  LET raw == [id |-> K(0), txin_count |-> Len(ins), txout_count |-> Len(outs),
              txins |-> ins, txouts |-> outs]
      msg == get_tx_sign_header(raw)
  IN [raw EXCEPT !.id = compute_tx_id(raw),
                 !.txins = [i \in 1..Len(ins) |->
                              [ins[i] EXCEPT !.signature = Sign(ins[i].public_key, msg)]]]

TxCoinbase == MkTx(<<MkTxIn(zero_tx_hash, COINBASE_TXOUT_INDEX, 0)>>, <<MkTxOut(50, 1)>>)
TxCoinbase2 == MkTx(<<MkTxIn(zero_tx_hash, COINBASE_TXOUT_INDEX, 0)>>, <<MkTxOut(60, 1)>>)
TxA == MkTx(<<MkTxIn(K(170), 0, 7)>>, <<MkTxOut(5, 2)>>)
\* spends the outpoint TxA spends
TxB == MkTx(<<MkTxIn(K(170), 0, 7)>>, <<MkTxOut(4, 3), MkTxOut(2, 2)>>)
TxC == MkTx(<<MkTxIn(K(187), 1, 8)>>, <<MkTxOut(5, 2), MkTxOut(1, 3)>>)
\* spends one outpoint twice
TxDupIn == MkTx(<<MkTxIn(K(204), 0, 7), MkTxIn(K(204), 0, 7)>>, <<MkTxOut(9, 2)>>)

TxPalette == {TxCoinbase, TxCoinbase2, TxA, TxB, TxC, TxDupIn}

NoRet == [op |-> "none", val |-> 0, now |-> 0, g |-> 0]
NotTampered == [on |-> FALSE, g |-> 0]
Idle == <<>>

\* the block a caller builds from make_block: header fields set, the
\* transactions of txs added in order, then (on request) the merkle root
\* computed into merkle_root and the block hash into hash
RECURSIVE AddAll(_, _)
AddAll(b, txs) ==
  IF txs = <<>> THEN b
  ELSE AddAll(add_transaction_to_block(b, Head(txs), b.transaction_count).block,
              Tail(txs))

BuildBlock(ts, n, txs, with_root, hash_g) ==
  LET b0 == AddAll([make_block EXCEPT !.timestamp = ts, !.nonce = n, !.bits = PowBits],
                   txs)
      b1 == IF with_root /\ b0.transaction_count >= 1
            THEN [b0 EXCEPT !.merkle_root = compute_merkle_root(b0).merkle_root]
            ELSE b0
  IN IF hash_g \in Garbage
     THEN [b1 EXCEPT !.hash = compute_block_hash(b1, hash_g)]
     ELSE b1

TxSeqs == UNION {[1..n -> TxPalette] : n \in 0..MaxTx}
NoHash == -1                        \* the hash field is left as make_block set it

Init ==
  /\ \E ts \in Timestamps, n \in Nonces, txs \in TxSeqs,
        with_root \in BOOLEAN, hash_g \in Garbage \cup {NoHash} :
       block = BuildBlock(ts, n, txs, with_root, hash_g)
  /\ now = Now0
  /\ ret = NoRet
  /\ tampered = NotTampered
  /\ tree = Idle
  /\ codec = Idle
  /\ genesis = Idle
  /\ calls = Idle
  /\ other_block = Idle
  /\ validated = FALSE
  /\ vb = Idle

ValidBlock ==
  /\ \E g \in Garbage :
       ret' = [op |-> "valid_block", val |-> valid_block(block, now, g),
               now |-> now, g |-> g]
  /\ UNCHANGED <<block, now, tampered, tree, codec, genesis, calls, other_block, validated, vb>>

ValidateBlockSignatures ==
  /\ ret' = [op |-> "validate_block_signatures",
             val |-> validate_block_signatures(block), now |-> now, g |-> 0]
  /\ UNCHANGED <<block, now, tampered, tree, codec, genesis, calls, other_block, validated, vb>>

\* one bit of the signature of input j of the non-coinbase transaction i is
\* flipped in place, in a block valid_block has just accepted
FlipSignatureBit ==
  /\ ret.op = "valid_block" /\ ret.val = 1
  /\ \E i \in 1..block.transaction_count :
       LET tx == Deref(block.transactions[i])
       IN /\ is_coinbase_tx(tx) = 0
          /\ \E j \in 1..tx.txin_count : \E k \in 0..1 :
               block' = [block EXCEPT !.transactions[i] =
                           Ptr([tx EXCEPT !.txins[j].signature = FlipBit(@, k)])]
  /\ tampered' = [on |-> TRUE, g |-> ret.g]
  /\ ret' = NoRet
  /\ UNCHANGED <<now, tree, codec, genesis, calls, other_block, validated, vb>>

Next ==
  \/ ValidBlock
  \/ ValidateBlockSignatures
  \/ FlipSignatureBit

Spec == Init /\ [][Next]_vars

-----------------------------------------------------------------------------
(* Claims about the block validator                                        *)

TxAt(b, i) == Deref(b.transactions[i])
TxIdx(b) == 1..b.transaction_count
\* every input of the block, as <<transaction index, input index>>
BlockInputs(b) == {<<i, j>> \in TxIdx(b) \X (0..255) : j \in 1..TxAt(b, i).txin_count}
InputAt(b, p) == TxAt(b, p[1]).txins[p[2]]

Check1(b, t) == b.timestamp <= t + MAX_FUTURE_BLOCK_TIME
Check2(b) == b.transaction_count >= 1
Check3(b) == is_coinbase_tx(TxAt(b, 1)) = 1
Check4(b) == \A i \in TxIdx(b) :
               /\ valid_transaction(TxAt(b, i)) = 1
               /\ i > 1 => is_coinbase_tx(TxAt(b, i)) = 0
Check5(b) == \A i, j \in TxIdx(b) : i # j => TxAt(b, i).id # TxAt(b, j).id
Check6(b) == \A p, q \in BlockInputs(b) :
               p # q => Outpoint(InputAt(b, p)) # Outpoint(InputAt(b, q))
Check7(b) == get_block_header_size(b) <= MAX_BLOCK_SIZE
Check8(b, g) == valid_block_hash(b, g) = 1
Check9(b) == valid_merkle_root(b) = 1

AllNineChecks(b, t, g) ==
  /\ Check1(b, t) /\ Check2(b) /\ Check3(b) /\ Check4(b) /\ Check5(b)
  /\ Check6(b) /\ Check7(b) /\ Check8(b, g) /\ Check9(b)

Accepted == ret.op = "valid_block" /\ ret.val = 1
Rejected == ret.op = "valid_block" /\ ret.val = 0

C2_OneCoinbaseAtIndexZero ==
  Accepted =>
    /\ Cardinality({i \in TxIdx(block) : is_coinbase_tx(TxAt(block, i)) = 1}) = 1
    /\ is_coinbase_tx(TxAt(block, 1)) = 1

C2_Witness ==
  /\ Accepted
  /\ block.transaction_count = 2
  /\ is_coinbase_tx(TxAt(block, 2)) = 0

\* C3: in a block valid_block accepts no two inputs, of two transactions or
\* of one, reference the same (prev_txid, prev_vout).
C3_NoDuplicateSpend == Accepted => Check6(block)

\* two non-coinbase transactions spend the same outpoint and the block,
\* which passes every other check, is rejected
C3_Witness ==
  /\ Rejected
  /\ Check1(block, ret.now) /\ Check2(block) /\ Check3(block) /\ Check4(block)
  /\ Check5(block) /\ Check7(block) /\ Check8(block, ret.g) /\ Check9(block)
  /\ \E i, j \in TxIdx(block) :
       /\ i # j
       /\ is_coinbase_tx(TxAt(block, i)) = 0 /\ is_coinbase_tx(TxAt(block, j)) = 0
       /\ Outpoint(TxAt(block, i).txins[1]) = Outpoint(TxAt(block, j).txins[1])

\* every input of every non-coinbase transaction of b carries a signature
\* that verifies
AllSignaturesVerify(b) ==
  \A p \in BlockInputs(b) :
    \/ is_coinbase_tx(TxAt(b, p[1])) = 1
    \/ ed25519_verify(InputAt(b, p).signature,
                      get_tx_sign_header(TxAt(b, p[1])), InputAt(b, p).public_key)

SignaturesChecked == ret.op = "validate_block_signatures"

-----------------------------------------------------------------------------
(* The Merkle engine step by step: construct_merkle_tree_from_leaves on a   *)
(* list of leaf hashes.  tree is [pc, hashes, mt, root].                   *)

LeafHashes == {K(1), K(2), K(3)}
LeafSeqs == UNION {[1..n -> LeafHashes] : n \in 0..MaxLeaves}
NoEngine == [heap |-> <<>>, nodes |-> <<>>, num_of_nodes |-> 0]

InitMerkle ==
  /\ block = make_block
  /\ now = Now0
  /\ ret = NoRet
  /\ tampered = NotTampered
  /\ codec = Idle
  /\ \E hashes \in LeafSeqs :
       tree = [pc |-> "start", hashes |-> hashes, mt |-> NoEngine, root |-> NULL_NODE,
               frees |-> <<>>, tree_freed |-> FALSE]
  /\ genesis = Idle
  /\ calls = Idle
  /\ other_block = Idle
  /\ validated = FALSE
  /\ vb = Idle

\* merkle.c:47-58: NULL for an empty list, else the leaves are made
ConstructLeaves ==
  /\ tree.pc = "start"
  /\ tree' = IF Len(tree.hashes) < 1
             THEN [tree EXCEPT !.pc = "done"]
             ELSE [tree EXCEPT !.pc = "collapsing",
                               !.mt = construct_merkle_leaves_from_hashes(tree.hashes)]
  /\ UNCHANGED <<block, now, ret, tampered, codec, genesis, calls, other_block, validated, vb>>

\* merkle.c:60-63: one turn of the while loop
CollapseLevel ==
  /\ tree.pc = "collapsing"
  /\ tree.mt.num_of_nodes > 1
  /\ tree' = [tree EXCEPT !.mt = collapse_merkle_nodes(tree.mt)]
  /\ UNCHANGED <<block, now, ret, tampered, codec, genesis, calls, other_block, validated, vb>>

\* merkle.c:65-67: tree->root = nodes[0]
ReturnTree ==
  /\ tree.pc = "collapsing"
  /\ tree.mt.num_of_nodes <= 1
  /\ tree' = [tree EXCEPT !.pc = "done", !.root = tree.mt.nodes[1]]
  /\ UNCHANGED <<block, now, ret, tampered, codec, genesis, calls, other_block, validated, vb>>

\* block.c:243-248: compute_merkle_root copies the root hash and frees the tree
FreeMerkleTree ==
  /\ tree.pc = "done"
  /\ tree.root # NULL_NODE
  /\ LET r == free_merkle_tree(tree.mt.heap, tree.root)
     IN tree' = [tree EXCEPT !.pc = "freed", !.mt.heap = r.heap, !.frees = r.frees,
                             !.tree_freed = r.tree_freed]
  /\ UNCHANGED <<block, now, ret, tampered, codec, genesis, calls, other_block, validated, vb>>

NextMerkle == ConstructLeaves \/ CollapseLevel \/ ReturnTree \/ FreeMerkleTree

SpecMerkle == InitMerkle /\ [][NextMerkle]_vars

\* The reference fold: a level is a list of hashes; neighbours are paired as
\* sha256d(left || right) and an odd last hash is paired with itself.
H2(l, r) == sha256d(HashBytes(l) \o HashBytes(r))
RefNextLevel(level) ==
  [i \in 1..((Len(level) + 1) \div 2) |->
     H2(level[2 * i - 1], IF 2 * i <= Len(level) THEN level[2 * i] ELSE level[2 * i - 1])]
RECURSIVE RefRoot(_)
RefRoot(level) == IF Len(level) = 1 THEN level[1] ELSE RefRoot(RefNextLevel(level))

TreeBuilt == tree.pc = "done" /\ Len(tree.hashes) >= 1
BuiltRoot == tree.mt.heap[tree.root].hash

\* C4: the root construct_merkle_tree_from_leaves produces for a non-empty
\* list of txids is the reference fold; one txid is its own root and
\* [a, b, c] gives H(H(a||b) || H(c||c)).
C4_MerkleRootIsReferenceFold ==
  TreeBuilt =>
    /\ BuiltRoot = RefRoot(tree.hashes)
    /\ Len(tree.hashes) = 1 => BuiltRoot = tree.hashes[1]
    /\ Len(tree.hashes) = 3 =>
         BuiltRoot = H2(H2(tree.hashes[1], tree.hashes[2]),
                        H2(tree.hashes[3], tree.hashes[3]))
    /\ Len(tree.hashes) > 1 => BufLen(BuiltRoot[2]) = 2 * HASH_SIZE

\* a tree over five leaves, odd at two levels, has been built
C4_Witness == TreeBuilt /\ Len(tree.hashes) = 5

\* a parent whose left and right child are the same node
SharedChild(heap) == {i \in 1..Len(heap) : heap[i].left # NULL_NODE /\ heap[i].left = heap[i].right}

\* C13: free_merkle_tree frees every node construct_merkle_tree_from_leaves
\* allocated exactly once, a node that is both children of its parent
\* included: none is freed twice, none stays allocated, and the tree itself
\* is freed.
C13_EveryNodeFreedOnce ==
  tree.pc = "freed" =>
    /\ Len(tree.frees) = Len(tree.mt.heap)
    /\ \A i \in 1..Len(tree.frees) : tree.frees[i] = 1
    /\ tree.tree_freed

\* a freed tree over five leaves: the fifth leaf and then its parent are
\* each both children of their parent
C13_Witness ==
  /\ tree.pc = "freed"
  /\ Len(tree.hashes) = 5
  /\ Len(tree.frees) = 5 + 3 + 2 + 1
  /\ Cardinality(SharedChild(tree.mt.heap)) = 2

-----------------------------------------------------------------------------
(* Block codec (block.c:361-611).  The reading side of the buffer lives in  *)
(* common/buffer_iterator.c, which is not part of the sources: a read fails *)
(* on short input and on a length prefix the remaining bytes do not cover   *)
(* (section 4.2).  A read result is [ok, val, pos]; pos is the index of the *)
(* next cell of the data.                                                   *)

buffer_write_bytes32(h) == U32LE(HASH_SIZE) \o HashBytes(h)

serialize_block(b) ==
  U32LE(b.version)
    \o buffer_write_bytes32(b.previous_hash)
    \o buffer_write_bytes32(b.hash)
    \o U32LE(b.timestamp) \o U32LE(b.nonce) \o U32LE(b.bits)
    \o U64LE(b.cumulative_emission)
    \o buffer_write_bytes32(b.merkle_root)
    \o U32LE(b.transaction_count)

serialize_transactions_from_block(b) ==
  Flatten([i \in 1..b.transaction_count |->
             serialize_transaction(Deref(b.transactions[i]))])

\* the value of 4 little-endian bytes as a uint32_t
LEU32(b0, b1, b2, b3) ==
  b0 + 256 * b1 + 65536 * b2 + 16777216 * (IF b3 >= 128 THEN b3 - 256 ELSE b3)

BytesAt(data, pos, n) ==
  /\ pos + n - 1 <= Len(data)
  /\ \A k \in 0..(n - 1) : data[pos + k][1] = "b"

ReadFailed(pos) == [ok |-> FALSE, val |-> 0, pos |-> pos]

buffer_read_uint8(data, pos) ==
  IF BytesAt(data, pos, 1)
  THEN [ok |-> TRUE, val |-> data[pos][2], pos |-> pos + 1]
  ELSE ReadFailed(pos)

buffer_read_uint32(data, pos) ==
  IF BytesAt(data, pos, 4)
  THEN [ok |-> TRUE,
        val |-> LEU32(data[pos][2], data[pos + 1][2], data[pos + 2][2], data[pos + 3][2]),
        pos |-> pos + 4]
  ELSE ReadFailed(pos)

\* the values of the model stay below 2^31: the high four bytes are zero
buffer_read_uint64(data, pos) ==
  IF BytesAt(data, pos, 8)
  THEN [ok |-> TRUE,
        val |-> LEU32(data[pos][2], data[pos + 1][2], data[pos + 2][2], data[pos + 3][2]),
        pos |-> pos + 8]
  ELSE ReadFailed(pos)

\* a length prefix, then that many bytes
buffer_read_bytes32(data, pos) ==
  LET len == buffer_read_uint32(data, pos)
  IN IF /\ len.ok
        /\ len.pos <= Len(data)
        /\ data[len.pos][1] # "b"
        /\ CellWidth(data[len.pos]) = len.val
     THEN [ok |-> TRUE, val |-> data[len.pos][2], pos |-> len.pos + 1]
     ELSE ReadFailed(pos)

\* the block pointer is NULL, or the block was freed
NULL_BLOCK == [null |-> TRUE]

\* deserialize_block: [rc, written, block, pos]; written tells whether
\* *block_out was assigned, block is the block allocated by the call if it
\* is still allocated
deserialize_block(data, pos) ==
  LET version == buffer_read_uint32(data, pos)
      previous_hash == buffer_read_bytes32(data, version.pos)
      hash == buffer_read_bytes32(data, previous_hash.pos)
      timestamp == buffer_read_uint32(data, hash.pos)
      nonce == buffer_read_uint32(data, timestamp.pos)
      bits == buffer_read_uint32(data, nonce.pos)
      cumulative_emission == buffer_read_uint64(data, bits.pos)
      merkle_root == buffer_read_bytes32(data, cumulative_emission.pos)
      transaction_count == buffer_read_uint32(data, merkle_root.pos)
  IN IF /\ version.ok /\ previous_hash.ok /\ hash.ok /\ timestamp.ok /\ nonce.ok
        /\ bits.ok /\ cumulative_emission.ok /\ merkle_root.ok /\ transaction_count.ok
     THEN [rc |-> 0, written |-> TRUE, pos |-> transaction_count.pos,
           block |-> [make_block EXCEPT
                        !.version = version.val,
                        !.previous_hash = previous_hash.val,
                        !.hash = hash.val,
                        !.timestamp = timestamp.val,
                        !.nonce = nonce.val,
                        !.bits = bits.val,
                        !.cumulative_emission = cumulative_emission.val,
                        !.merkle_root = merkle_root.val,
                        !.transaction_count = transaction_count.val]]
     ELSE [rc |-> 1, written |-> FALSE, pos |-> pos, block |-> NULL_BLOCK]

\* block_to_serialized: the bytes handed back in *data
block_to_serialized(b) == serialize_block(b)

\* block_from_serialized: the block returned, NULL_BLOCK for NULL
block_from_serialized(data) ==
  LET r == deserialize_block(data, 1)
  IN IF r.rc # 0 THEN NULL_BLOCK ELSE r.block

\* Reading a transaction (transaction.c is not part of the sources; the
\* layout is that of section 4.2).  A result is [ok, val, pos].
buffer_read_prefixed(data, pos, tag) ==
  LET len == buffer_read_uint32(data, pos)
  IN IF /\ len.ok
        /\ len.pos <= Len(data)
        /\ data[len.pos][1] = tag
        /\ CellWidth(data[len.pos]) = len.val
     THEN [ok |-> TRUE, val |-> data[len.pos][2], pos |-> len.pos + 1]
     ELSE ReadFailed(pos)

\* one field of the layout: "u8", "u32", "u64", "h" (a 32-byte hash), or the
\* tag of a length-prefixed field
ReadField(data, pos, kind) ==
  CASE kind = "u8" -> buffer_read_uint8(data, pos)
    [] kind = "u32" -> buffer_read_uint32(data, pos)
    [] kind = "u64" -> buffer_read_uint64(data, pos)
    [] kind = "h" -> buffer_read_bytes32(data, pos)
    [] OTHER -> buffer_read_prefixed(data, pos, kind)

\* the fields of a layout read one after the other: [ok, val (the values), pos]
RECURSIVE ReadFields(_, _, _)
ReadFields(data, pos, kinds) ==
  IF kinds = <<>> THEN [ok |-> TRUE, val |-> <<>>, pos |-> pos]
  ELSE LET first == ReadField(data, pos, Head(kinds))
       IN IF ~first.ok THEN [ok |-> FALSE, val |-> <<>>, pos |-> pos]
          ELSE LET rest == ReadFields(data, first.pos, Tail(kinds))
               IN [ok |-> rest.ok, val |-> <<first.val>> \o rest.val, pos |-> rest.pos]

TxinLayout == <<"h", "u32", "sig", "pk">>
TxoutLayout == <<"u64", "addr">>

\* the layout of txin_count inputs followed by txout_count outputs
TxBodyLayout(txin_count, txout_count) ==
  Flatten([i \in 1..txin_count |-> TxinLayout])
    \o Flatten([i \in 1..txout_count |-> TxoutLayout])

deserialize_txin(f, i) ==
  [transaction |-> f[4 * i - 3], txout_index |-> f[4 * i - 2],
   signature |-> f[4 * i - 1], public_key |-> f[4 * i]]

deserialize_txout(f, i) ==
  [amount |-> f[2 * i - 1], address |-> f[2 * i]]

\* the transaction made of the header fields hdr and the body fields read
TxFromBody(pos, hdr, body) ==
  IF ~body.ok THEN ReadFailed(pos)
  ELSE [ok |-> TRUE, pos |-> body.pos,
        val |-> [id |-> hdr[1], txin_count |-> hdr[2], txout_count |-> hdr[3],
                 txins |-> [i \in 1..hdr[2] |-> deserialize_txin(body.val, i)],
                 txouts |-> [i \in 1..hdr[3] |->
                               deserialize_txout(SubSeq(body.val, 4 * hdr[2] + 1,
                                                        Len(body.val)), i)]]]

TxFromHeader(data, pos, hdr) ==
  IF ~hdr.ok THEN ReadFailed(pos)
  ELSE TxFromBody(pos, hdr.val,
                  ReadFields(data, hdr.pos, TxBodyLayout(hdr.val[2], hdr.val[3])))

\* id, txin_count, txout_count, the inputs, the outputs
deserialize_transaction(data, pos) ==
  TxFromHeader(data, pos, ReadFields(data, pos, <<"h", "u8", "u8">>))

\* the loop of deserialize_transactions_to_block from i on (0-based);
\* transactions holds the slots written so far, the rest of the array is
\* as malloc returned it
RECURSIVE DeserializeTxLoop(_, _, _, _)
DeserializeTxLoop(data, pos, b, i) ==
  IF i >= b.transaction_count THEN [rc |-> 0, block |-> b, pos |-> pos]
  ELSE LET tx == deserialize_transaction(data, pos)
       IN IF ~tx.ok THEN [rc |-> 1, block |-> b, pos |-> pos]
          ELSE DeserializeTxLoop(data, tx.pos,
                                 [b EXCEPT !.transactions = Append(@, Ptr(tx.val))],
                                 i + 1)

\* deserialize_transactions_to_block: [rc, block, pos, malloced]; malloced
\* is the number of array slots asked of malloc
deserialize_transactions_to_block(data, pos, b) ==
  IF b.transaction_count > 0
  THEN LET r == DeserializeTxLoop(data, pos, [b EXCEPT !.transactions = <<>>], 0)
       IN [rc |-> r.rc, block |-> r.block, pos |-> r.pos,
           malloced |-> b.transaction_count]
  ELSE [rc |-> 0, block |-> b, pos |-> pos, malloced |-> 0]

\* compare_transaction is not part of the sources: field by field
compare_transaction(tx, other_tx) == IF tx = other_tx THEN 1 ELSE 0

\* compare_block reads a slot the array does not hold (a NULL array, or a
\* slot nobody wrote): the behaviour is undefined
UNDEFINED == -1

SlotReadable(b, tx_index) ==
  /\ tx_index + 1 <= Len(b.transactions)
  /\ b.transactions[tx_index + 1] # UNINIT_TX
  /\ b.transactions[tx_index + 1] # NULL_TX

RECURSIVE CompareTxLoop(_, _, _)
CompareTxLoop(b, o, tx_index) ==
  IF tx_index >= b.transaction_count THEN 1
  ELSE IF ~SlotReadable(b, tx_index) \/ ~SlotReadable(o, tx_index) THEN UNDEFINED
  ELSE IF compare_transaction(Deref(b.transactions[tx_index + 1]),
                              Deref(o.transactions[tx_index + 1])) = 0 THEN 0
  ELSE CompareTxLoop(b, o, tx_index + 1)

compare_block(b, o) ==
  LET result == /\ b.version = o.version
                /\ compare_hash(b.previous_hash, o.previous_hash) = 1
                /\ compare_hash(b.hash, o.hash) = 1
                /\ b.timestamp = o.timestamp
                /\ b.nonce = o.nonce
                /\ b.bits = o.bits
                /\ b.cumulative_emission = o.cumulative_emission
                /\ compare_hash(b.merkle_root, o.merkle_root) = 1
                /\ b.transaction_count = o.transaction_count
  IN IF ~result THEN 0 ELSE CompareTxLoop(b, o, 0)

-----------------------------------------------------------------------------
(* The codec step by step.  block is the source block; codec holds the wire *)
(* input of the decoder, the bytes block_to_serialized produced, the        *)
(* decoder's block (out), whether *block_out was assigned, the return code, *)
(* the array slots asked of malloc, and the results of compare_block and    *)
(* compute_block_hash.                                                      *)

HugeCount == 1000000000
SIGSEGV == 11
CodecTxs == <<TxCoinbase, TxA, TxC, TxB>>

CodecBlocks ==
  {BuildBlock(Now0, n, SubSeq(CodecTxs, 1, k), TRUE, 0) :
     n \in Nonces, k \in 0..MaxCodecTx}

\* what a peer or the store may hand to the decoder: the serialized block
\* followed by its transactions, with the count field as is or huge, cut
\* anywhere
WireInputs(b) ==
  LET Full(c) == serialize_block([b EXCEPT !.transaction_count = c])
                   \o serialize_transactions_from_block(b)
  IN {SubSeq(Full(c), 1, cut) :
        c \in {b.transaction_count, HugeCount}, cut \in 0..Len(Full(0))}

InitCodec ==
  /\ now = Now0
  /\ ret = NoRet
  /\ tampered = NotTampered
  /\ tree = Idle
  /\ block \in CodecBlocks
  /\ \E wire \in WireInputs(block) :
       codec = [pc |-> "start", wire |-> wire, data |-> <<>>, out |-> NULL_BLOCK,
                written |-> FALSE, rc |-> 0, pos |-> 1, malloced |-> 0,
                cmp |-> 0, hash_out |-> K(0)]
  /\ genesis = Idle
  /\ calls = Idle
  /\ other_block = Idle
  /\ validated = FALSE
  /\ vb = Idle

BlockToSerialized ==
  /\ codec.pc = "start"
  /\ codec' = [codec EXCEPT !.pc = "serialized", !.data = block_to_serialized(block),
                            !.rc = 0]
  /\ UNCHANGED <<block, now, ret, tampered, tree, genesis, calls, other_block, validated, vb>>

BlockFromSerialized ==
  /\ codec.pc = "serialized"
  /\ codec' = [codec EXCEPT !.pc = "restored", !.out = block_from_serialized(codec.data)]
  /\ UNCHANGED <<block, now, ret, tampered, tree, genesis, calls, other_block, validated, vb>>

\* compare_block(block, restored block)
CompareBlock ==
  /\ codec.pc = "restored"
  /\ codec.out # NULL_BLOCK
  /\ LET r == compare_block(block, codec.out)
     IN \E outcome \in (IF r = UNDEFINED THEN {0, 1, SIGSEGV} ELSE {r}) :
          codec' = [codec EXCEPT !.pc = "compared", !.cmp = outcome]
  /\ UNCHANGED <<block, now, ret, tampered, tree, genesis, calls, other_block, validated, vb>>

DeserializeBlock ==
  /\ codec.pc = "start"
  /\ LET r == deserialize_block(codec.wire, 1)
     IN codec' = [codec EXCEPT !.pc = "block_read", !.rc = r.rc, !.out = r.block,
                               !.written = r.written, !.pos = r.pos]
  /\ UNCHANGED <<block, now, ret, tampered, tree, genesis, calls, other_block, validated, vb>>

DeserializeTransactionsToBlock ==
  /\ codec.pc = "block_read"
  /\ codec.rc = 0
  /\ LET r == deserialize_transactions_to_block(codec.wire, codec.pos, codec.out)
     IN codec' = [codec EXCEPT !.pc = "txs_read", !.rc = r.rc, !.out = r.block,
                               !.pos = r.pos, !.malloced = r.malloced]
  /\ UNCHANGED <<block, now, ret, tampered, tree, genesis, calls, other_block, validated, vb>>

\* compute_block_hash(hash_out, block)
ComputeBlockHash ==
  /\ codec.pc = "start"
  /\ \E g \in Garbage :
       codec' = [codec EXCEPT !.pc = "hashed", !.hash_out = compute_block_hash(block, g)]
  /\ UNCHANGED <<block, now, ret, tampered, tree, genesis, calls, other_block, validated, vb>>

NextCodec ==
  \/ BlockToSerialized
  \/ BlockFromSerialized
  \/ CompareBlock
  \/ DeserializeBlock
  \/ DeserializeTransactionsToBlock
  \/ ComputeBlockHash

SpecCodec == InitCodec /\ [][NextCodec]_vars

\* C5: block_from_serialized(block_to_serialized(b)) is a block equal to b,
\* transactions included: compare_block returns 1.
C5_RoundTripEqual ==
  /\ codec.pc = "restored" =>
       /\ codec.out # NULL_BLOCK
       /\ codec.out.transaction_count = block.transaction_count
       /\ codec.out.transactions = block.transactions
  /\ codec.pc = "compared" => codec.cmp = 1

\* the header layout of section 4.2
ClaimedHeaderLayout(b) ==
  U32LE(b.version) \o U32LE(b.timestamp) \o U32LE(b.nonce) \o U32LE(b.bits)
    \o U64LE(b.cumulative_emission)
    \o HashBytes(b.previous_hash) \o HashBytes(b.merkle_root)

\* C6: compute_block_hash(b) is sha256d of exactly the 92 bytes
\* serialize_block_header writes: version, timestamp, nonce, bits,
\* cumulative_emission, previous_hash, merkle_root.
C6_HashOfNinetyTwoHeaderBytes ==
  codec.pc = "hashed" =>
    /\ BufLen(serialize_block_header(block)) = 92
    /\ serialize_block_header(block) = ClaimedHeaderLayout(block)
    /\ codec.hash_out = sha256d(serialize_block_header(block))

\* the block the decoder holds has no more transactions counted than stored
CountCovered(b) == b = NULL_BLOCK \/ b.transaction_count <= Len(b.transactions)

\* C9: when decoding fails the caller gets an error and nothing partial:
\* *block_out is not written and no block is left with a transaction_count
\* larger than the number of transactions decoded and stored.
C9_FailureLeavesNothingPartial ==
  /\ (codec.pc = "block_read" /\ codec.rc # 0) =>
       ~codec.written /\ CountCovered(codec.out)
  /\ (codec.pc = "txs_read" /\ codec.rc # 0) => CountCovered(codec.out)

\* the smallest serialized transaction: id, txin_count, txout_count
MinTxSize == BufLen(U32LE(HASH_SIZE) \o HashBytes(K(0)) \o U8(0) \o U8(0))
CountFieldPos == Len(serialize_block(make_block)) - 3
WireCount == buffer_read_uint32(codec.wire, CountFieldPos)
\* the count field of the input is there and is too large for MAX_BLOCK_SIZE
OversizeCount ==
  /\ WireCount.ok
  /\ WireCount.val > MAX_BLOCK_SIZE \div MinTxSize

\* C10: decoding a block whose transaction_count would take the
\* transactions beyond MAX_BLOCK_SIZE fails with a decode error and
\* produces no block, before an array is allocated for that count.
C10_OversizeCountRejected ==
  (OversizeCount /\ codec.pc \in {"block_read", "txs_read"}) =>
    /\ codec.rc # 0
    /\ ~codec.written
    /\ codec.malloced = 0

-----------------------------------------------------------------------------
(* The life of a block (block.c): a constructed block on which the          *)
(* validation, hashing and comparison operations are called in any order    *)
(* while the clock advances and transactions are added.  genesis is the     *)
(* block get_genesis_block() returns (genesis.c is not part of the         *)
(* sources: a hard-coded block holding its coinbase transaction).           *)

MaxTicks == 2                       \* seconds the clock advances
MaxLifeTx == 2                      \* transactions of a block in its life
SIGABRT == 6                        \* a failed assertion

GenesisBlock == BuildBlock(0, 0, <<TxCoinbase>>, TRUE, 0)

\* compare_with_genesis_block: g and gg are what the unwritten bytes of the
\* header buffer hold in the two compute_block_hash calls
compare_with_genesis_block(b, gen, g, gg) ==
  LET b2 == [b EXCEPT !.hash = compute_block_hash(b, g)]
      gen2 == [gen EXCEPT !.hash = compute_block_hash(gen, gg)]
  IN [block |-> b2, genesis |-> gen2, val |-> compare_block(b2, gen2)]

LifeTxSeqs == {<<>>, <<TxCoinbase>>}

InitLife ==
  /\ \E ts \in Timestamps, n \in Nonces, txs \in LifeTxSeqs, hash_g \in {0, NoHash} :
       block = BuildBlock(ts, n, txs, TRUE, hash_g)
  /\ now = Now0
  /\ ret = NoRet
  /\ tampered = NotTampered
  /\ tree = Idle
  /\ codec = Idle
  /\ genesis = GenesisBlock
  /\ calls = Idle
  /\ other_block = Idle
  /\ validated = FALSE
  /\ vb = Idle

\* a call that returns val and writes nothing but its result
Returns(op, val, g) ==
  /\ ret' = [op |-> op, val |-> val, now |-> now, g |-> g]
  /\ UNCHANGED <<block, now, tampered, tree, codec, genesis, calls, other_block, vb>>

\* get_current_time() moves on
Tick ==
  /\ now < Now0 + MaxTicks
  /\ now' = now + 1
  /\ UNCHANGED <<block, ret, tampered, tree, codec, genesis, calls, other_block,
                 validated, vb>>

LifeValidBlock ==
  \E g \in Garbage :
    /\ Returns("valid_block", valid_block(block, now, g), g)
    /\ validated' = (validated \/ valid_block(block, now, g) = 1)

ValidBlockTimestamp ==
  /\ Returns("valid_block_timestamp", valid_block_timestamp(block, now), 0)
  /\ UNCHANGED validated

ValidBlockHash ==
  /\ \E g \in Garbage : Returns("valid_block_hash", valid_block_hash(block, g), g)
  /\ UNCHANGED validated

\* compute_merkle_root asserts that the tree is not NULL (block.c:244)
ValidMerkleRoot ==
  /\ Returns("valid_merkle_root",
             IF block.transaction_count < 1 THEN SIGABRT ELSE valid_merkle_root(block), 0)
  /\ UNCHANGED validated

ComputeMerkleRoot ==
  /\ Returns("compute_merkle_root",
             IF block.transaction_count < 1 THEN SIGABRT
             ELSE compute_merkle_root(block).merkle_root, 0)
  /\ UNCHANGED validated

LifeComputeBlockHash ==
  /\ \E g \in Garbage : Returns("compute_block_hash", compute_block_hash(block, g), g)
  /\ UNCHANGED validated

LifeValidateBlockSignatures ==
  /\ Returns("validate_block_signatures", validate_block_signatures(block), 0)
  /\ UNCHANGED validated

GetBlockHeaderSize ==
  /\ Returns("get_block_header_size", get_block_header_size(block), 0)
  /\ UNCHANGED validated

\* compare_block(block, genesis_block)
LifeCompareBlock ==
  /\ Returns("compare_block", compare_block(block, genesis), 0)
  /\ UNCHANGED validated

CompareWithGenesisBlock ==
  /\ \E g \in Garbage, gg \in Garbage :
       LET r == compare_with_genesis_block(block, genesis, g, gg)
       IN /\ block' = r.block
          /\ genesis' = r.genesis
          /\ ret' = [op |-> "compare_with_genesis_block", val |-> r.val,
                     now |-> now, g |-> g]
  /\ UNCHANGED <<now, tampered, tree, codec, calls, other_block, validated, vb>>

\* add_transaction_to_block(block, tx, block->transaction_count)
AddTransactionToBlock ==
  /\ block.transaction_count < MaxLifeTx
  /\ block' = add_transaction_to_block(block, TxA, block.transaction_count).block
  /\ ret' = [op |-> "add_transaction_to_block", val |-> 0, now |-> now, g |-> 0]
  /\ UNCHANGED <<now, tampered, tree, codec, genesis, calls, other_block, validated, vb>>

NextLife ==
  \/ Tick
  \/ LifeValidBlock
  \/ ValidBlockTimestamp
  \/ ValidBlockHash
  \/ ValidMerkleRoot
  \/ ComputeMerkleRoot
  \/ LifeComputeBlockHash
  \/ LifeValidateBlockSignatures
  \/ GetBlockHeaderSize
  \/ LifeCompareBlock
  \/ CompareWithGenesisBlock
  \/ AddTransactionToBlock

SpecLife == InitLife /\ [][NextLife]_vars

\* C11: a block stamped exactly now + MAX_FUTURE_BLOCK_TIME passes
\* valid_block_timestamp; a block stamped one second later fails it and is
\* rejected by valid_block.
C11_TimestampBoundary ==
  /\ ret.op = "valid_block_timestamp" =>
       /\ block.timestamp = ret.now + MAX_FUTURE_BLOCK_TIME => ret.val = 1
       /\ block.timestamp = ret.now + MAX_FUTURE_BLOCK_TIME + 1 => ret.val = 0
  /\ (ret.op = "valid_block" /\ block.timestamp = ret.now + MAX_FUTURE_BLOCK_TIME + 1)
       => ret.val = 0

\* the clock has advanced by one second and the block that was one second
\* too far ahead is now exactly on the boundary, and passes
C11_Witness ==
  /\ ret.op = "valid_block_timestamp"
  /\ ret.now = Now0 + 1
  /\ block.timestamp = ret.now + MAX_FUTURE_BLOCK_TIME
  /\ ret.val = 1

\* C12: rejection is permanent: after valid_block has returned 0 for a
\* block, a later valid_block call on the same unmodified block returns 0
\* whatever the clock has advanced to (the unwritten bytes of the header
\* buffer being the same in both calls).
C12_RejectionIsPermanent ==
  [][(/\ ret.op = "valid_block" /\ ret.val = 0
      /\ ret'.op = "valid_block" /\ ret'.g = ret.g
      /\ block' = block)
       => ret'.val = 0]_vars

\* the hash field is the digest compute_block_hash gives for the header
HashConsistent(b) == \E g \in Garbage : b.hash = compute_block_hash(b, g)

\* C16: the state of a block only moves forward: a hash field consistent
\* with the header stays consistent, and once valid_block has returned 1
\* for the block no operation of the block interface leads to a state in
\* which valid_block returns 0.
C16_StateOnlyMovesForward ==
  /\ [](validated => \E g \in Garbage : valid_block(block, now, g) = 1)
  /\ [][HashConsistent(block) => HashConsistent(block')]_vars

ReadOnlyOps ==
  {"valid_block", "valid_block_timestamp", "valid_block_hash", "valid_merkle_root",
   "validate_block_signatures", "compute_block_hash", "compute_merkle_root",
   "get_block_header_size", "compare_block", "compare_with_genesis_block"}

\* C17: the validation, hashing and comparison operations leave every field
\* of the block they are given, and of the genesis block, unchanged.
C17_ReadOnlyOperations ==
  [][ret'.op \in ReadOnlyOps => (block' = block /\ genesis' = genesis)]_vars

-----------------------------------------------------------------------------
(* valid_block step by step (block.c:93-212): vb is [pc, val, g,            *)
(* read_first, engine_called]; pc is the test the call is about to make,    *)
(* "returned" after a return, "abort" after a failed assertion and          *)
(* "undefined" after a read through a NULL array.                           *)

VbReturn(v) == [pc |-> "returned", val |-> v]
VbGoto(pc) == [pc |-> pc, val |-> 0]

\* the hashes compute_merkle_root hands to the Merkle engine
TxIdsOf(b) == [i \in 1..b.transaction_count |-> compute_tx_id(Deref(b.transactions[i]))]

\* mutant: the test on transaction_count is missing
valid_block_step_NoCountTest(pc, b, t, g) ==
  CASE pc = "timestamp" ->
         IF valid_block_timestamp(b, t) = 0 THEN VbReturn(0) ELSE VbGoto("count")
    [] pc = "count" -> VbGoto("coinbase")
    [] pc = "coinbase" ->
         IF Len(b.transactions) = 0 THEN VbGoto("undefined")
         ELSE IF b.transactions[1] = NULL_TX THEN VbReturn(0)
         ELSE IF is_coinbase_tx(Deref(b.transactions[1])) = 0 THEN VbReturn(0)
         ELSE VbGoto("transactions")
    [] pc = "transactions" ->
         IF FirstTxLoop(b, 0) = 0 THEN VbReturn(0) ELSE VbGoto("size")
    [] pc = "size" ->
         IF get_block_header_size(b) > MAX_BLOCK_SIZE THEN VbReturn(0) ELSE VbGoto("hash")
    [] pc = "hash" ->
         IF valid_block_hash(b, g) = 0 THEN VbReturn(0) ELSE VbGoto("merkle")
    [] pc = "merkle" ->
         IF construct_merkle_tree_from_leaves(TxIdsOf(b)) = NULL_TREE THEN VbGoto("abort")
         ELSE IF valid_merkle_root(b) = 0 THEN VbReturn(0)
         ELSE VbReturn(1)

\* one test of valid_block: where the call goes from pc
valid_block_step(pc, b, t, g) ==
  CASE pc = "timestamp" ->
         IF valid_block_timestamp(b, t) = 0 THEN VbReturn(0) ELSE VbGoto("count")
    [] pc = "count" ->
         IF b.transaction_count < 1 THEN VbReturn(0) ELSE VbGoto("coinbase")
    [] pc = "coinbase" ->
         IF Len(b.transactions) = 0 THEN VbGoto("undefined")
         ELSE IF b.transactions[1] = NULL_TX THEN VbReturn(0)
         ELSE IF is_coinbase_tx(Deref(b.transactions[1])) = 0 THEN VbReturn(0)
         ELSE VbGoto("transactions")
    [] pc = "transactions" ->
         IF FirstTxLoop(b, 0) = 0 THEN VbReturn(0) ELSE VbGoto("size")
    [] pc = "size" ->
         IF get_block_header_size(b) > MAX_BLOCK_SIZE THEN VbReturn(0) ELSE VbGoto("hash")
    [] pc = "hash" ->
         IF valid_block_hash(b, g) = 0 THEN VbReturn(0) ELSE VbGoto("merkle")
    [] pc = "merkle" ->
         IF construct_merkle_tree_from_leaves(TxIdsOf(b)) = NULL_TREE THEN VbGoto("abort")
         ELSE IF valid_merkle_root(b) = 0 THEN VbReturn(0)
         ELSE VbReturn(1)

InitPath ==
  /\ \E ts \in Timestamps, n \in Nonces, txs \in TxSeqs,
        with_root \in BOOLEAN, hash_g \in Garbage \cup {NoHash} :
       block = BuildBlock(ts, n, txs, with_root, hash_g)
  /\ now = Now0
  /\ ret = NoRet
  /\ tampered = NotTampered
  /\ tree = Idle
  /\ codec = Idle
  /\ genesis = Idle
  /\ calls = Idle
  /\ other_block = Idle
  /\ validated = FALSE
  /\ \E g \in Garbage :
       vb = [pc |-> "timestamp", val |-> 0, g |-> g,
             read_first |-> FALSE, engine_called |-> FALSE]

\* the call makes the test it stands at
ValidBlockStep ==
  /\ vb.pc \notin {"returned", "abort", "undefined"}
  /\ LET r == valid_block_step(vb.pc, block, now, vb.g)
     IN vb' = [vb EXCEPT !.pc = r.pc, !.val = r.val,
                         !.read_first = @ \/ vb.pc = "coinbase",
                         !.engine_called = @ \/ vb.pc = "merkle"]
  /\ UNCHANGED <<block, now, ret, tampered, tree, codec, genesis, calls, other_block,
                 validated>>

NextPath == ValidBlockStep

SpecPath == InitPath /\ [][NextPath]_vars

\* C15: valid_block on a block without transactions returns 0 before it
\* reads transactions[0] and before it calls the Merkle engine; so
\* compute_merkle_root is reached with transaction_count >= 1 only and its
\* assertion that the tree is not NULL never fails.
C15_EmptyBlockRejectedFirst ==
  /\ vb.pc \in {"coinbase", "merkle"} => block.transaction_count >= 1
  /\ (vb.read_first \/ vb.engine_called) => block.transaction_count >= 1
  /\ vb.pc \notin {"abort", "undefined"}
  /\ (vb.pc = "returned" /\ block.transaction_count = 0) => vb.val = 0

\* a block with a good timestamp and no transaction has been rejected
C15_Witness ==
  /\ vb.pc = "returned"
  /\ block.transaction_count = 0
  /\ valid_block_timestamp(block, now) = 1
  /\ vb.val = 0
  /\ ~vb.read_first

\* the steps return what valid_block returns
PathAgreesWithValidBlock ==
  vb.pc = "returned" => vb.val = valid_block(block, now, vb.g)

-----------------------------------------------------------------------------
(* Construction of a block (block.c:57-75, 613-646): from make_block,       *)
(* add_transaction_to_block and add_transactions_to_block are called with   *)
(* any index and any transactions.  calls is the list of the transactions   *)
(* of the add_transaction_to_block calls that completed; a failed assertion *)
(* ends the program.                                                        *)

MaxBuildTx == 3                     \* transactions a block under construction gets
BuildPalette == {TxCoinbase, TxA, TxC}
MaxBatch == 2                       \* transactions handed to one add_transactions_to_block call
BuildTxSeqs == UNION {[1..n -> BuildPalette] : n \in 0..MaxBatch}

InitBuild ==
  /\ block = make_block
  /\ now = Now0
  /\ ret = NoRet
  /\ tampered = NotTampered
  /\ tree = Idle
  /\ codec = Idle
  /\ genesis = Idle
  /\ calls = <<>>
  /\ other_block = Idle
  /\ validated = FALSE
  /\ vb = Idle

\* add_transaction_to_block(block, tx, tx_index), any tx_index
BuildAddTransaction ==
  /\ ret.val # SIGABRT
  /\ block.transaction_count < MaxBuildTx
  /\ \E tx \in BuildPalette, tx_index \in 0..MaxBuildTx :
       LET r == add_transaction_to_block(block, tx, tx_index)
       IN /\ block' = r.block
          /\ calls' = IF r.ok THEN Append(calls, tx) ELSE calls
          /\ ret' = [op |-> "add_transaction_to_block",
                     val |-> IF r.ok THEN 0 ELSE SIGABRT,
                     tx_index |-> tx_index, num_transactions |-> 1,
                     count_before |-> block.transaction_count]
  /\ UNCHANGED <<now, tampered, tree, codec, genesis, other_block, validated, vb>>

\* add_transactions_to_block(block, transactions, num_transactions)
BuildAddTransactions ==
  /\ ret.val # SIGABRT
  /\ \E transactions \in BuildTxSeqs :
       /\ block.transaction_count + Len(transactions) <= MaxBuildTx
       /\ LET r == add_transactions_to_block(block, transactions)
          IN /\ block' = r.block
             /\ calls' = IF r.ok THEN calls \o transactions ELSE calls
             /\ ret' = [op |-> "add_transactions_to_block",
                        val |-> IF r.ok THEN 0 ELSE SIGABRT,
                        tx_index |-> 1, num_transactions |-> Len(transactions),
                        count_before |-> block.transaction_count]
  /\ UNCHANGED <<now, tampered, tree, codec, genesis, other_block, validated, vb>>

NextBuild == BuildAddTransaction \/ BuildAddTransactions

SpecBuild == InitBuild /\ [][NextBuild]_vars

-----------------------------------------------------------------------------
(* copy_block (block.c:686-767).  copy_transaction is not part of the       *)
(* sources; it is called as copy_transaction(tx, other_tx) with other_tx a  *)
(* local pointer holding NULL, which no callee can change; its return code  *)
(* is an input.  A result is [outcome, rc, block, released]: outcome is     *)
(* "returned", "abort" (a failed assertion) or "undefined" (a read past the *)
(* end of the array), block is the destination as the call leaves it and   *)
(* released the number of its previous transactions handed to              *)
(* free_transaction.                                                        *)

\* free_block_transactions on a destination whose array holds had entries
free_block_transactions(o) ==
  IF o.transaction_count > 0 /\ o.transactions # <<>>
  THEN IF o.transaction_count > Len(o.transactions)
       THEN [outcome |-> "undefined", block |-> o, released |-> Len(o.transactions)]
       ELSE [outcome |-> "returned",
             block |-> [o EXCEPT !.transaction_count = 0, !.transactions = <<>>],
             released |-> o.transaction_count]
  ELSE [outcome |-> "returned", block |-> o, released |-> 0]

\* copy_block_transactions(block, other_block); copy_rc is what
\* copy_transaction returns
copy_block_transactions(b, o, copy_rc) ==
  LET f == free_block_transactions(o)
  IN IF f.outcome # "returned" THEN [outcome |-> f.outcome, rc |-> 0, block |-> f.block,
                                     released |-> f.released]
     ELSE IF b.transaction_count > 0 /\ b.transactions # <<>>
     THEN IF copy_rc # 0
          THEN [outcome |-> "returned", rc |-> 1, block |-> f.block, released |-> f.released]
          ELSE [outcome |-> "abort", rc |-> 0, block |-> f.block, released |-> f.released]
     ELSE [outcome |-> "returned", rc |-> 0, block |-> f.block, released |-> f.released]

\* copy_block(block, other_block)
copy_block(b, o, copy_rc) ==
  LET o1 == [o EXCEPT !.version = b.version,
                      !.previous_hash = b.previous_hash,
                      !.hash = b.hash,
                      !.timestamp = b.timestamp,
                      !.nonce = b.nonce,
                      !.bits = b.bits,
                      !.cumulative_emission = b.cumulative_emission,
                      !.merkle_root = b.merkle_root,
                      !.transaction_count = b.transaction_count]
      r == copy_block_transactions(b, o1, copy_rc)
  IN IF r.outcome # "returned" \/ r.rc # 0
     THEN [r EXCEPT !.rc = IF r.outcome = "returned" THEN 1 ELSE 0]
     ELSE [r EXCEPT !.rc = IF compare_block(b, r.block) = 0 THEN 1 ELSE 0]

MaxCopyTx == 2                      \* transactions of the blocks given to copy_block
CopyTxSeqs == UNION {[1..n -> {TxCoinbase, TxA}] : n \in 0..MaxCopyTx}

InitCopy ==
  /\ \E n \in Nonces, txs \in CopyTxSeqs : block = BuildBlock(Now0, n, txs, TRUE, 0)
  /\ \E txs \in CopyTxSeqs : other_block = BuildBlock(Now0 + 1, 0, txs, FALSE, NoHash)
  /\ now = Now0
  /\ ret = NoRet
  /\ tampered = NotTampered
  /\ tree = Idle
  /\ codec = Idle
  /\ genesis = Idle
  /\ calls = Idle
  /\ validated = FALSE
  /\ vb = Idle

CopyBlock ==
  /\ ret.op = "none"
  /\ \E copy_rc \in {0, 1} :
       LET r == copy_block(block, other_block, copy_rc)
       IN /\ other_block' = r.block
          /\ ret' = [op |-> "copy_block", val |-> r.rc, outcome |-> r.outcome,
                     released |-> r.released,
                     had |-> other_block.transaction_count]
  /\ UNCHANGED <<block, now, tampered, tree, codec, genesis, calls, validated, vb>>

NextCopy == CopyBlock

SpecCopy == InitCopy /\ [][NextCopy]_vars

\* C14: for every source and destination block copy_block completes and
\* returns 0, the destination equals the source under compare_block and
\* has the source's transaction_count with as many transactions stored,
\* and the destination's previous transactions are all released.  (No
\* transaction object is shared: the destination holds copies only.)
C14_CopyBlockDeep ==
  ret.op = "copy_block" =>
    /\ ret.outcome = "returned"
    /\ ret.val = 0
    /\ other_block.transaction_count = block.transaction_count
    /\ Len(other_block.transactions) = block.transaction_count
    /\ compare_block(block, other_block) = 1
    /\ ret.released = ret.had

====
